---------------------------- MODULE Spec2Model ----------------------------
(***************************************************************************)
(* Geo-distributed LRU cache with time expiration (src/q3.js).             *)
(*                                                                         *)
(* The heap of Node objects and the table of pending setTimeout handles    *)
(* are modelled explicitly: a cache is its fields (length, limit,          *)
(* timeLimit, head, tail, cache), a node is its fields (key, val, prev,    *)
(* next, timeout).  nodes is the sequence of the Node objects created and   *)
(* timers the sequence of the handles setTimeout returned; an object is    *)
(* referred to by its index, 0 is null.  Object identities are renumbered  *)
(* after every operation (unreachable objects are dropped, live nodes are  *)
(* numbered along the lists), which changes nothing the program observes.  *)
(* built is the set of the caches constructed so far.                      *)
(***************************************************************************)
EXTENDS Integers, Sequences, FiniteSets, TLC

VARIABLES nodes, timers, lru, lrus, ops, last, built

vars == <<nodes, timers, lru, lrus, ops, last, built>>

---------------------------------------------------------------------------
(* Bounds of the exploration.                                              *)

Range(f) == {f[x] : x \in DOMAIN f}

MaxOps == 4          \* operations and timer firings in one behaviour

\* the keys and values of the calls, as demo() names them (q3.js:284-286)
KeyNames == <<"key1", "key2", "key3">>
Keys == Range(KeyNames)
Vals == {111, 222}

MaxTTL == 1          \* explicit per-entry time limits, in ticks: 1 .. MaxTTL

\* 0 is null where a node or a handle is expected and the number 0
\* elsewhere; Undefined is undefined: an argument left out, the result of a
\* function that returns nothing.  Both are falsy.
Undefined == -1

\* Constructor arguments of the caches of the model: one key more than a
\* cache holds, and a default time limit longer than the explicit ones.
Limit == Cardinality(Keys) - 1
TimeLimit == MaxTTL + 1

Caches == {"global", "canada", "usa"}
CacheOrder == <<"global", "canada", "usa">>
Regions == {"canada", "usa"}

\* this.lruKey of a region (q3.js:213, q3.js:249)
lruKey(r) == r

---------------------------------------------------------------------------
(* Objects.                                                                *)

\* class Node: constructor(key, val, prev, next, timeout); 0 is null
Node(key, val, prev, next, timeout) ==
    [key |-> key, val |-> val, prev |-> prev, next |-> next, timeout |-> timeout]

\* a handle that is not pending (never armed, fired or cleared)
NoTimer == [owner |-> "none", key |-> "none", delay |-> 0, left |-> 0]

\* LRU constructor: an empty cache
NewLRU(limit, timeLimit) ==
    [length |-> 0, limit |-> limit, timeLimit |-> timeLimit,
     head |-> 0, tail |-> 0, cache |-> [k \in Keys |-> 0]]

\* The part of the state the methods read and write, threaded through the
\* statements of a method.  err is the exception in flight ("none" when
\* there is none); log lists the hub and update calls made so far.
Here == [nodes |-> nodes, timers |-> timers, lru |-> lru, lrus |-> lrus,
         err |-> "none", log |-> <<>>]

Throw(s, e) == [s EXCEPT !.err = e]

\* this.cache[key]: a node, or undefined
CacheGet(s, c, key) == s.lru[c].cache[key]

Truthy(x) == x # 0 /\ x # Undefined

---------------------------------------------------------------------------
(* Reachability of objects.                                                *)

RECURSIVE Closure(_, _)
Closure(nd, S) ==
    LET T == S \cup {nd[n].prev : n \in S} \cup {nd[n].next : n \in S}
        U == T \ {0}
    IN IF U = S THEN S ELSE Closure(nd, U)

\* the nodes reachable from some cache's head, tail or cache map
Roots(s) ==
    UNION {{s.lru[c].head, s.lru[c].tail} \cup Range(s.lru[c].cache) : c \in Caches}
        \ {0}

LiveNodes(s) == Closure(s.nodes, Roots(s))

\* the handles that are pending
PendingTimers(s) == {t \in DOMAIN s.timers : s.timers[t] # NoTimer}

Lowest(S) == IF S = {} THEN 0 ELSE CHOOSE x \in S : \A y \in S : x <= y

---------------------------------------------------------------------------
(* class LRU                                                               *)

\* Statements in sequence: the state x the first leaves is the state the
\* rest, F, starts from.
Then(x, F(_)) == CHOOSE r \in {F(y) : y \in {x}} : TRUE

\* clearTimeout(handle): a null, fired or cleared handle is ignored
clearTimeout(s, h) ==
    IF h \in DOMAIN s.timers THEN [s EXCEPT !.timers[h] = NoTimer] ELSE s

\* LRU.remove with the statement `node.next.prev = node.prev` left out
LRUremoveKeepsPrev(s, c, key) ==
    LET n == CacheGet(s, c, key) IN
    IF s.err # "none" \/ ~Truthy(n) THEN s
    ELSE
      Then(clearTimeout(s, s.nodes[n].timeout), LAMBDA s1 :
      Then(IF s1.nodes[n].prev # 0
           THEN [s1 EXCEPT !.nodes[s1.nodes[n].prev].next = s1.nodes[n].next]
           ELSE [s1 EXCEPT !.lru[c].head = s1.nodes[n].next], LAMBDA s2 :
      Then(IF s2.nodes[n].next # 0
           THEN s2
           ELSE [s2 EXCEPT !.lru[c].tail = s2.nodes[n].prev], LAMBDA s3 :
      [s3 EXCEPT !.lru[c].cache[key] = 0, !.lru[c].length = @ - 1])))

\* LRU.remove without clearTimeout(node.timeout)
LRUremoveKeepsTimer(s, c, key) ==
    LET n == CacheGet(s, c, key) IN
    IF s.err # "none" \/ ~Truthy(n) THEN s
    ELSE
      Then(IF s.nodes[n].prev # 0
           THEN [s EXCEPT !.nodes[s.nodes[n].prev].next = s.nodes[n].next]
           ELSE [s EXCEPT !.lru[c].head = s.nodes[n].next], LAMBDA s2 :
      Then(IF s2.nodes[n].next # 0
           THEN [s2 EXCEPT !.nodes[s2.nodes[n].next].prev = s2.nodes[n].prev]
           ELSE [s2 EXCEPT !.lru[c].tail = s2.nodes[n].prev], LAMBDA s3 :
      [s3 EXCEPT !.lru[c].cache[key] = 0, !.lru[c].length = @ - 1]))

\* LRU.remove(key)
LRUremove(s, c, key) ==
    LET n == CacheGet(s, c, key) IN
    IF s.err # "none" \/ ~Truthy(n) THEN s
    ELSE
      Then(clearTimeout(s, s.nodes[n].timeout), LAMBDA s1 :
      Then(IF s1.nodes[n].prev # 0
           THEN [s1 EXCEPT !.nodes[s1.nodes[n].prev].next = s1.nodes[n].next]
           ELSE [s1 EXCEPT !.lru[c].head = s1.nodes[n].next], LAMBDA s2 :
      Then(IF s2.nodes[n].next # 0
           THEN [s2 EXCEPT !.nodes[s2.nodes[n].next].prev = s2.nodes[n].prev]
           ELSE [s2 EXCEPT !.lru[c].tail = s2.nodes[n].prev], LAMBDA s3 :
      [s3 EXCEPT !.lru[c].cache[key] = 0, !.lru[c].length = @ - 1])))

\* LRU.isAtLimit with > for ===
isAtLimitAbove(l) == l.length > l.limit

\* LRU.isAtLimit()
isAtLimit(l) == l.length = l.limit

\* timeLimit ?? this.timeLimit: the default for undefined alone
timeoutTimeUnlessUndefined(l, timeLimit) ==
    IF timeLimit # Undefined THEN timeLimit ELSE l.timeLimit

\* const timeoutTime = timeLimit || this.timeLimit
timeoutTime(l, timeLimit) == IF Truthy(timeLimit) THEN timeLimit ELSE l.timeLimit

\* the timer and the node of LRU.write with this.timeLimit as the delay,
\* whatever timeLimit is
LRUinsertDefaultTTL(s, c, key, val, timeLimit) ==
    LET t == Len(s.timers) + 1
        n == Len(s.nodes) + 1
        h == s.lru[c].head
    IN Then([s EXCEPT !.timers = Append(@, [owner |-> c, key |-> key,
                                            delay |-> s.lru[c].timeLimit,
                                            left |-> s.lru[c].timeLimit])], LAMBDA s1 :
       Then(IF s1.lru[c].length = 0
            THEN [s1 EXCEPT !.nodes = Append(@, Node(key, val, 0, 0, t)),
                            !.lru[c].head = n, !.lru[c].tail = n]
            ELSE IF h = 0 THEN Throw(s1, "TypeError")
            ELSE [s1 EXCEPT !.nodes = Append(@, Node(key, val, 0, h, t)),
                            !.nodes[h].prev = n,
                            !.lru[c].head = n], LAMBDA s2 :
       IF s2.err # "none" THEN s2
       ELSE [s2 EXCEPT !.lru[c].cache[key] = s2.lru[c].head,
                       !.lru[c].length = @ + 1]))

\* setTimeout(() => this.remove(key), timeoutTime) and the new Node at the
\* head of the list (q3.js:125-144)
LRUinsert(s, c, key, val, timeLimit) ==
    LET t == Len(s.timers) + 1
        n == Len(s.nodes) + 1
        h == s.lru[c].head
    IN Then([s EXCEPT !.timers = Append(@, [owner |-> c, key |-> key,
                                            delay |-> timeoutTime(s.lru[c], timeLimit),
                                            left |-> timeoutTime(s.lru[c], timeLimit)])], LAMBDA s1 :
       Then(IF s1.lru[c].length = 0
            THEN [s1 EXCEPT !.nodes = Append(@, Node(key, val, 0, 0, t)),
                            !.lru[c].head = n, !.lru[c].tail = n]
            ELSE IF h = 0 THEN Throw(s1, "TypeError")
            ELSE [s1 EXCEPT !.nodes = Append(@, Node(key, val, 0, h, t)),
                            !.nodes[h].prev = n,
                            !.lru[c].head = n], LAMBDA s2 :
       IF s2.err # "none" THEN s2
       ELSE [s2 EXCEPT !.lru[c].cache[key] = s2.lru[c].head,
                       !.lru[c].length = @ + 1]))

\* LRU.write removing this.head.key, not this.tail.key, at the limit
LRUwriteEvictsHead(s, c, key, val, timeLimit) ==
    IF s.err # "none" THEN s
    ELSE
      Then(IF Truthy(CacheGet(s, c, key)) THEN LRUremove(s, c, key) ELSE s, LAMBDA s1 :
      Then(IF s1.err # "none" \/ ~isAtLimit(s1.lru[c]) THEN s1
           ELSE IF s1.lru[c].head = 0 THEN Throw(s1, "TypeError")
           ELSE LRUremove(s1, c, s1.nodes[s1.lru[c].head].key), LAMBDA s2 :
      IF s2.err # "none" THEN s2 ELSE LRUinsert(s2, c, key, val, timeLimit)))

\* LRU.write(key, val, timeLimit)
LRUwrite(s, c, key, val, timeLimit) ==
    IF s.err # "none" THEN s
    ELSE
      Then(IF Truthy(CacheGet(s, c, key)) THEN LRUremove(s, c, key) ELSE s, LAMBDA s1 :
      Then(IF s1.err # "none" \/ ~isAtLimit(s1.lru[c]) THEN s1
           ELSE IF s1.lru[c].tail = 0 THEN Throw(s1, "TypeError")
           ELSE LRUremove(s1, c, s1.nodes[s1.lru[c].tail].key), LAMBDA s2 :
      IF s2.err # "none" THEN s2 ELSE LRUinsert(s2, c, key, val, timeLimit)))

---------------------------------------------------------------------------
(* class GlobalLRU, class CanadaLRU, class USALRU                          *)

\* the call of method m of cache c, noted in the log
Call(s, c, m) == IF s.err # "none" THEN s ELSE [s EXCEPT !.log = Append(@, <<c, m>>)]

\* an updateWrite that applies nothing
updateWriteDropped(s, r, key, val, timeLimit) == s

\* CanadaLRU.updateWrite / USALRU.updateWrite: super.write(key, val, timeLimit)
updateWrite(s, r, key, val, timeLimit) ==
    Then(Call(s, r, "updateWrite"), LAMBDA s1 : LRUwrite(s1, r, key, val, timeLimit))

\* the loop of GlobalLRU.write over Object.keys(this.lrus), from entry i on
RECURSIVE WriteFanOut(_, _, _, _, _, _)
WriteFanOut(s, i, key, val, timeLimit, from) ==
    IF s.err # "none" \/ i > Len(s.lrus) THEN s
    ELSE Then(IF s.lrus[i].id # from
              THEN updateWrite(s, s.lrus[i].lru, key, val, timeLimit)
              ELSE s, LAMBDA s1 :
         WriteFanOut(s1, i + 1, key, val, timeLimit, from))

\* GlobalLRU.write that updates its own store only
GlobalWriteAlone(s, key, val, timeLimit, from) ==
    Then(Call(s, "global", "write"), LAMBDA s1 :
    LRUwrite(s1, "global", key, val, timeLimit))

\* GlobalLRU.write(key, val, timeLimit, lruKey)
GlobalWrite(s, key, val, timeLimit, from) ==
    Then(Call(s, "global", "write"), LAMBDA s1 :
    Then(LRUwrite(s1, "global", key, val, timeLimit), LAMBDA s2 :
    WriteFanOut(s2, 1, key, val, timeLimit, from)))

\* CanadaLRU.write / USALRU.write(key, val, timeLimit)
RegionWrite(s, r, key, val, timeLimit) ==
    Then(Call(s, r, "write"), LAMBDA s1 :
    Then(LRUwrite(s1, r, key, val, timeLimit), LAMBDA s2 :
    GlobalWrite(s2, key, val, timeLimit, lruKey(r))))

\* this.write(key, val) as LRU.read calls it: the method of the object's own
\* class, with timeLimit (and, in the hub, lruKey) undefined
ThisWrite(s, c, key, val) ==
    IF c = "global" THEN GlobalWrite(s, key, val, Undefined, "undefined")
    ELSE RegionWrite(s, c, key, val, Undefined)

\* LRU.read that leaves the node where it is
LRUreadInPlace(s, c, key) == s

\* LRU.read(key)
LRUread(s, c, key) ==
    LET n == CacheGet(s, c, key) IN
    IF s.err # "none" \/ ~Truthy(n) THEN s
    ELSE Then(LRUremove(s, c, key), LAMBDA s1 : ThisWrite(s1, c, key, s.nodes[n].val))

\* CanadaLRU.updateRead / USALRU.updateRead: super.read(key)
updateRead(s, r, key) ==
    Then(Call(s, r, "updateRead"), LAMBDA s1 : LRUread(s1, r, key))

\* the loop of GlobalLRU.read over Object.keys(this.lrus), from entry i on
RECURSIVE ReadFanOut(_, _, _, _)
ReadFanOut(s, i, key, from) ==
    IF s.err # "none" \/ i > Len(s.lrus) THEN s
    ELSE Then(IF s.lrus[i].id # from
              THEN updateRead(s, s.lrus[i].lru, key)
              ELSE s, LAMBDA s1 :
         ReadFanOut(s1, i + 1, key, from))

\* GlobalLRU.read(key, lruKey)
GlobalRead(s, key, from) ==
    Then(Call(s, "global", "read"), LAMBDA s1 :
    Then(LRUread(s1, "global", key), LAMBDA s2 :
    ReadFanOut(s2, 1, key, from)))

\* CanadaLRU.read / USALRU.read(key)
RegionRead(s, r, key) ==
    Then(Call(s, r, "read"), LAMBDA s1 :
    Then(LRUread(s1, r, key), LAMBDA s2 :
    GlobalRead(s2, key, lruKey(r))))

\* the index of the registry entry with this id, 0 when there is none
Registered(reg, id) ==
    IF \E i \in 1..Len(reg) : reg[i].id = id
    THEN CHOOSE i \in 1..Len(reg) : reg[i].id = id ELSE 0

\* GlobalLRU.addLRU(lruKey, lru): this.lrus[lruKey] = lru
addLRU(s, id, r) ==
    LET i == Registered(s.lrus, id) IN
    IF i # 0 THEN [s EXCEPT !.lrus[i].lru = r]
    ELSE [s EXCEPT !.lrus = Append(@, [id |-> id, lru |-> r])]

\* GlobalLRU.removeLRU(lruKey): delete this.lrus[lruKey]
removeLRU(s, id) ==
    LET i == Registered(s.lrus, id) IN
    IF i = 0 THEN s
    ELSE [s EXCEPT !.lrus = SubSeq(@, 1, i - 1) \o SubSeq(@, i + 1, Len(@))]

\* a callback that removes the key from every cache
timeoutFiredEverywhere(s, t) ==
    Then([s EXCEPT !.timers[t] = NoTimer], LAMBDA s1 :
    Then(LRUremove(s1, "global", s.timers[t].key), LAMBDA s2 :
    Then(LRUremove(s2, "canada", s.timers[t].key), LAMBDA s3 :
    LRUremove(s3, "usa", s.timers[t].key))))

\* the callback of setTimeout in LRU.write, run when handle t fires
timeoutFired(s, t) ==
    Then([s EXCEPT !.timers[t] = NoTimer], LAMBDA s1 :
    LRUremove(s1, s.timers[t].owner, s.timers[t].key))

---------------------------------------------------------------------------
(* Renumbering of object identities: the nodes along the lists of the hub, *)
(* of canada and of usa take 1, 2, ... in that order, then the other live  *)
(* nodes; a handle takes the number of the first node that holds it.       *)

InSeq(q, x) == \E i \in 1..Len(q) : q[i] = x
IndexOf(q, x) == IF x = 0 THEN 0 ELSE CHOOSE i \in 1..Len(q) : q[i] = x

RECURSIVE Ascending(_)
Ascending(S) == IF S = {} THEN <<>> ELSE <<Lowest(S)>> \o Ascending(S \ {Lowest(S)})

RECURSIVE WalkNext(_, _, _)
WalkNext(nd, n, seen) ==
    IF n = 0 \/ InSeq(seen, n) THEN seen
    ELSE Then(Append(seen, n), LAMBDA q : WalkNext(nd, nd[n].next, q))

RECURSIVE WalkLists(_, _, _)
WalkLists(s, i, seen) ==
    IF i > Len(CacheOrder) THEN seen
    ELSE Then(WalkNext(s.nodes, s.lru[CacheOrder[i]].head, seen), LAMBDA q :
         WalkLists(s, i + 1, q))

NodeOrder(s) ==
    Then(WalkLists(s, 1, <<>>), LAMBDA w : w \o Ascending(LiveNodes(s) \ Range(w)))

\* a handle is kept while a live node holds it or it is pending
RECURSIVE HeldOrder(_, _, _, _)
HeldOrder(s, order, i, seen) ==
    IF i > Len(order) THEN seen
    ELSE Then(IF s.nodes[order[i]].timeout = 0 \/ InSeq(seen, s.nodes[order[i]].timeout)
              THEN seen
              ELSE Append(seen, s.nodes[order[i]].timeout), LAMBDA q :
         HeldOrder(s, order, i + 1, q))

TimerOrder(s, order) ==
    Then(HeldOrder(s, order, 1, <<>>), LAMBDA w :
    w \o Ascending(PendingTimers(s) \ Range(w)))

Renumber(s) ==
    Then(NodeOrder(s), LAMBDA order :
    Then(TimerOrder(s, order), LAMBDA torder :
    [s EXCEPT
       !.nodes = [i \in 1..Len(order) |->
                    Node(s.nodes[order[i]].key, s.nodes[order[i]].val,
                         IndexOf(order, s.nodes[order[i]].prev),
                         IndexOf(order, s.nodes[order[i]].next),
                         IndexOf(torder, s.nodes[order[i]].timeout))],
       !.timers = [i \in 1..Len(torder) |-> s.timers[torder[i]]],
       !.lru = [c \in Caches |->
                  [s.lru[c] EXCEPT !.head = IndexOf(order, @),
                                   !.tail = IndexOf(order, @),
                                   !.cache = [k \in Keys |-> IndexOf(order, @[k])]]]]))

---------------------------------------------------------------------------
(* The state machine.                                                      *)

\* read has no return statement (q3.js:98-109, 225-228, 253-256)
readResult(s, c, key) == Undefined

\* the value cache c holds for key, Undefined when it holds none
ValueOf(nd, l, key) == IF l.cache[key] = 0 THEN Undefined ELSE nd[l.cache[key]].val

\* The calls of demo() on a cache of two entries (q3.js:284-292), and the
\* writes of Limit + 1 distinct keys.
DemoScript == <<<<"write", "key1">>, <<"write", "key2">>, <<"read", "key1">>,
                <<"write", "key3">>>>
FillScript == [i \in 1..(Limit + 1) |-> <<"write", KeyNames[i]>>]

\* how far the behaviour has followed a script at one region: the number of
\* calls when every operation so far was the script's, at region last.at;
\* -1 once it has left the script
Follow(script, sofar, op, c, key) ==
    IF /\ sofar = ops
       /\ ops < Len(script)
       /\ script[ops + 1] = <<op, key>>
       /\ ops = 0 \/ c = last.at
    THEN ops + 1 ELSE -1

\* The clock of the timed specification: the last write a region was asked
\* for (cache, key, the delay of its timer), the ticks since, and whether a
\* read or a remove has named the key since.  c is "off" where time is not
\* modelled and "none" before the first write.
NoTrack(c) == [c |-> c, key |-> "none", ttl |-> 0, age |-> 0,
               read |-> FALSE, removed |-> FALSE]

Track(op, c, key, timeLimit) ==
    IF last.track.c = "off" THEN last.track
    ELSE IF op = "write"
    THEN [c |-> c, key |-> key, ttl |-> timeoutTime(lru[c], timeLimit), age |-> 0,
          read |-> FALSE, removed |-> FALSE]
    ELSE IF op = "read" /\ key = last.track.key THEN [last.track EXCEPT !.read = TRUE]
    ELSE IF op = "remove" /\ key = last.track.key THEN [last.track EXCEPT !.removed = TRUE]
    ELSE last.track

\* what the last operation was, for the properties: the call, the value the
\* cache held for the key before it, how it ended and what it called
Record(op, c, key, val, timeLimit, s, ret) ==
    [op |-> op, c |-> c, key |-> key, val |-> val, timeLimit |-> timeLimit,
     had |-> IF key \in Keys THEN ValueOf(nodes, lru[c], key) ELSE Undefined,
     err |-> s.err, log |-> s.log, ret |-> ret,
     at |-> IF /\ Follow(DemoScript, last.demo, op, c, key) = -1
               /\ Follow(FillScript, last.fill, op, c, key) = -1
            THEN "none"
            ELSE IF ops = 0 THEN c ELSE last.at,
     demo |-> Follow(DemoScript, last.demo, op, c, key),
     fill |-> Follow(FillScript, last.fill, op, c, key),
     track |-> Track(op, c, key, timeLimit)]

\* the state an operation leaves
Effect(s, l) ==
    /\ \E r \in {Renumber(s)} :
          /\ nodes' = r.nodes
          /\ timers' = r.timers
          /\ lru' = r.lru
          /\ lrus' = r.lrus
    /\ last' = l
    /\ built' = built

\* the state at the end of an operation, one of MaxOps
Commit(s, l) ==
    /\ ops < MaxOps
    /\ ops' = ops + 1
    /\ Effect(s, l)

\* geoLRUDemo: the hub and the two regions constructed empty, each region
\* registered under its lruKey (q3.js:305-310)
Init ==
    /\ nodes = <<>>
    /\ timers = <<>>
    /\ lru = [c \in Caches |-> NewLRU(Limit, TimeLimit)]
    /\ lrus = <<[id |-> lruKey("canada"), lru |-> "canada"],
               [id |-> lruKey("usa"), lru |-> "usa"]>>
    /\ ops = 0
    /\ built = Caches
    /\ last = [op |-> "new", c |-> "none", key |-> "none", val |-> 0,
               timeLimit |-> 0, had |-> 0, err |-> "none", log |-> <<>>,
               ret |-> 0, at |-> "none", demo |-> 0, fill |-> 0,
               track |-> NoTrack("off")]

\* globalLRU.addLRU(id, r)
AddLRU(id, r) ==
    \E s \in {addLRU(Here, id, r)} :
        Commit(s, Record("addLRU", r, id, 0, 0, s, Undefined))

\* globalLRU.removeLRU(id)
RemoveLRU(id) ==
    \E s \in {removeLRU(Here, id)} :
        Commit(s, Record("removeLRU", "global", id, 0, 0, s, Undefined))

\* r.write(key, val, timeLimit) on a region
Write(r, key, val, timeLimit) ==
    \E s \in {RegionWrite(Here, r, key, val, timeLimit)} :
        Commit(s, Record("write", r, key, val, timeLimit, s, Undefined))

\* r.read(key) on a region
Read(r, key) ==
    \E s \in {RegionRead(Here, r, key)} :
        Commit(s, Record("read", r, key, 0, 0, s, readResult(s, r, key)))

\* r.remove(key) on a region: LRU.remove, which no class overrides
Remove(r, key) ==
    \E s \in {LRUremove(Here, r, key)} :
        Commit(s, Record("remove", r, key, 0, 0, s, Undefined))

\* the timer of handle t fires
Expire(t) ==
    /\ timers[t] # NoTimer
    /\ \E s \in {timeoutFired(Here, t)} :
          Commit(s, Record("expire", timers[t].owner, timers[t].key, 0, 0, s, Undefined))

\* Keys are opaque to the program, and a key no cache holds has left no
\* trace in it: the calls name the keys some cache holds and the first key
\* that none holds, which stands for all of those.
Held == {k \in Keys : \E c \in Caches : lru[c].cache[k] # 0}
KeysToUse ==
    Held \cup {KeyNames[i] : i \in {j \in 1..Len(KeyNames) :
                                     /\ KeyNames[j] \notin Held
                                     /\ \A h \in 1..(j - 1) : KeyNames[h] \in Held}}

Next ==
    \/ \E id \in Regions, r \in Regions : AddLRU(id, r)
    \/ \E id \in Regions : RemoveLRU(id)
    \/ \E r \in Regions, key \in KeysToUse, val \in Vals : Write(r, key, val, Undefined)
    \/ \E r \in Regions, key \in KeysToUse : Read(r, key)
    \/ \E r \in Regions, key \in KeysToUse : Remove(r, key)
    \/ \E t \in DOMAIN timers : Expire(t)

Spec == Init /\ [][Next]_vars

---------------------------------------------------------------------------
(* Writes and reads at the regions alone: no timer fires, nothing is       *)
(* removed, the registry stays as geoLRUDemo sets it up.                   *)

RWNext ==
    \/ \E r \in Regions, key \in Keys, val \in Vals : Write(r, key, val, Undefined)
    \/ \E r \in Regions, key \in Keys : Read(r, key)

RWSpec == Init /\ [][RWNext]_vars

---------------------------------------------------------------------------
(* The timed specification: a timer fires when its delay has elapsed, and  *)
(* time advances by one tick when no timer is due.                         *)

\* the timeLimit of a write: none, as demo() calls it, or explicit; the
\* value is the one demo() writes first (q3.js:284)
TimeLimits == {Undefined} \cup (1..MaxTTL)

TimedInit ==
    /\ nodes = <<>>
    /\ timers = <<>>
    /\ lru = [c \in Caches |-> NewLRU(Limit, TimeLimit)]
    /\ lrus = <<[id |-> lruKey("canada"), lru |-> "canada"],
               [id |-> lruKey("usa"), lru |-> "usa"]>>
    /\ ops = 0
    /\ built = Caches
    /\ last = [op |-> "new", c |-> "none", key |-> "none", val |-> 0,
               timeLimit |-> 0, had |-> 0, err |-> "none", log |-> <<>>,
               ret |-> 0, at |-> "none", demo |-> -1, fill |-> -1,
               track |-> NoTrack("none")]

\* the timer of handle t fires, its delay elapsed
Fire(t) == timers[t].left = 0 /\ Expire(t)

\* one tick passes: no timer is due, and a timer or the clock is running
Tick ==
    /\ \A t \in DOMAIN timers : timers[t] # NoTimer => timers[t].left > 0
    /\ \/ \E t \in DOMAIN timers : timers[t] # NoTimer
       \/ last.track.c # "none" /\ last.track.age <= TimeLimit
    /\ timers' = [t \in DOMAIN timers |->
                    IF timers[t] = NoTimer THEN NoTimer
                    ELSE [timers[t] EXCEPT !.left = @ - 1]]
    /\ last' = [last EXCEPT !.op = "tick", !.log = <<>>,
                            !.track.age = IF last.track.c # "none" /\ @ <= TimeLimit
                                          THEN @ + 1 ELSE @]
    /\ UNCHANGED <<nodes, lru, lrus, ops, built>>

TimedNext ==
    \/ \E r \in Regions, key \in KeysToUse, timeLimit \in TimeLimits :
          Write(r, key, 111, timeLimit)
    \/ \E r \in Regions, key \in KeysToUse : Read(r, key)
    \/ \E r \in Regions, key \in KeysToUse : Remove(r, key)
    \/ \E t \in DOMAIN timers : Fire(t)
    \/ Tick

TimedSpec == TimedInit /\ [][TimedNext]_vars

---------------------------------------------------------------------------
(* Construction: the hub exists, and a region is constructed against it    *)
(* with the arguments of one of Configs, at any time.                      *)

\* Node.clone(): a new Node of the same key, val and timeout; `prev` and
\* `next` name no variable, so cloning a node that has a neighbour throws
clone(s, n) ==
    IF s.err # "none" THEN s
    ELSE IF n = 0 THEN Throw(s, "TypeError")
    ELSE IF s.nodes[n].prev # 0 \/ s.nodes[n].next # 0 THEN Throw(s, "ReferenceError")
    ELSE [s EXCEPT !.nodes = Append(@, Node(s.nodes[n].key, s.nodes[n].val, 0, 0,
                                            s.nodes[n].timeout))]

\* new CanadaLRU(globalLRU, limit, timeLimit)
NewCanadaLRU(s, limit, timeLimit) ==
    Then([s EXCEPT !.lru["canada"] = NewLRU(limit, timeLimit)], LAMBDA s0 :
    IF s0.lru["global"].length > 0
    THEN Then(clone(s0, s0.lru["global"].head), LAMBDA s1 :
         Then(clone(s1, s1.lru["global"].tail), LAMBDA s2 :
         IF s2.err # "none" THEN s2
         ELSE [s2 EXCEPT !.lru["canada"].head = Len(s1.nodes),
                         !.lru["canada"].tail = Len(s2.nodes),
                         !.lru["canada"].length = s2.lru["global"].length,
                         !.lru["canada"].cache = s2.lru["global"].cache]))
    ELSE s0)

\* new USALRU(globalLRU, limit, timeLimit)
NewUSALRU(s, limit, timeLimit) == [s EXCEPT !.lru["usa"] = NewLRU(limit, timeLimit)]

\* (limit, timeLimit) of the constructor calls
Configs == {<<Limit, TimeLimit>>, <<Limit, TimeLimit + 1>>, <<0, TimeLimit>>, <<Limit, 0>>}

\* a region that is not constructed yet holds nothing
BuildInit ==
    /\ nodes = <<>>
    /\ timers = <<>>
    /\ lru = [c \in Caches |-> IF c = "global" THEN NewLRU(Limit, TimeLimit)
                                ELSE NewLRU(0, 0)]
    /\ lrus = <<>>
    /\ ops = 0
    /\ built = {"global"}
    /\ last = [op |-> "new", c |-> "global", key |-> "none", val |-> 0,
               timeLimit |-> 0, had |-> 0, err |-> "none", log |-> <<>>,
               ret |-> 0, at |-> "none", demo |-> -1, fill |-> -1,
               track |-> NoTrack("off")]

\* r = new CanadaLRU(globalLRU, limit, timeLimit) or new USALRU(...): when
\* the constructor throws there is no object
Construct(r, limit, timeLimit) ==
    /\ r \notin built
    /\ ops < MaxOps
    /\ ops' = ops + 1
    /\ \E s \in {IF r = "canada" THEN NewCanadaLRU(Here, limit, timeLimit)
                 ELSE NewUSALRU(Here, limit, timeLimit)} :
          /\ \E n \in {IF s.err = "none" THEN Renumber(s) ELSE Here} :
                /\ nodes' = n.nodes
                /\ timers' = n.timers
                /\ lru' = n.lru
                /\ lrus' = n.lrus
          /\ built' = IF s.err = "none" THEN built \cup {r} ELSE built
          /\ last' = Record("new", r, "none", limit, timeLimit, s, Undefined)

BuildNext ==
    \/ \E r \in Regions, cfg \in Configs : Construct(r, cfg[1], cfg[2])
    \/ \E r \in Regions \cap built : AddLRU(lruKey(r), r)
    \/ \E r \in Regions \cap built, key \in KeysToUse, val \in Vals,
          timeLimit \in {Undefined, 0} : Write(r, key, val, timeLimit)
    \/ \E r \in Regions \cap built, key \in KeysToUse : Read(r, key)
    \/ \E r \in Regions \cap built, key \in KeysToUse : Remove(r, key)
    \/ \E t \in DOMAIN timers : Expire(t)

BuildSpec == BuildInit /\ [][BuildNext]_vars

---------------------------------------------------------------------------
(* Construction, with every pending timer firing in the end: a timer       *)
(* fires whatever the number of operations made.                           *)

\* the timer of handle t fires
Lapse(t) ==
    /\ timers[t] # NoTimer
    /\ ops' = ops
    /\ \E s \in {timeoutFired(Here, t)} :
          Effect(s, Record("expire", timers[t].owner, timers[t].key, 0, 0, s, Undefined))

Lapses == \E t \in DOMAIN timers : Lapse(t)

FairNext ==
    \/ \E r \in Regions, cfg \in Configs : Construct(r, cfg[1], cfg[2])
    \/ \E r \in Regions \cap built : AddLRU(lruKey(r), r)
    \/ \E r \in Regions \cap built, key \in KeysToUse : Write(r, key, 111, Undefined)
    \/ \E r \in Regions \cap built, key \in KeysToUse : Read(r, key)
    \/ Lapses

\* the event loop runs every timer that is due
FairSpec == BuildInit /\ [][FairNext]_vars /\ WF_vars(Lapses)

---------------------------------------------------------------------------
(* What a cache holds.                                                     *)

RECURSIVE WalkPrev(_, _, _)
WalkPrev(nd, n, seen) ==
    IF n = 0 \/ InSeq(seen, n) THEN seen
    ELSE WalkPrev(nd, nd[n].prev, Append(seen, n))

Reverse(q) == [i \in 1..Len(q) |-> q[Len(q) + 1 - i]]

\* the nodes from head along next, and from tail along prev
Forward(nd, l) == WalkNext(nd, l.head, <<>>)
Backward(nd, l) == WalkPrev(nd, l.tail, <<>>)

\* the keys of the cache map, and the keys of the list from head to tail
MapKeys(l) == {k \in Keys : l.cache[k] # 0}
ListKeys(nd, l) == [i \in 1..Len(Forward(nd, l)) |-> nd[Forward(nd, l)[i]].key]

KeysOf(c) == ListKeys(nodes, lru[c])

---------------------------------------------------------------------------
(* C1: every cache holds at most limit entries: length and the number of   *)
(* keys of the cache map never exceed limit, whatever writes, reads,       *)
(* removes, timer firings and propagated updates have happened.            *)

CapacityBound ==
    \A c \in Caches :
        /\ lru[c].length <= lru[c].limit
        /\ Cardinality(MapKeys(lru[c])) <= lru[c].limit

\* Limit + 1 distinct keys have been written at one region, and every cache
\* is full
CapacityReached ==
    /\ last.fill = Limit + 1
    /\ \A c \in Caches : lru[c].length = lru[c].limit

---------------------------------------------------------------------------
(* C2: in every cache the map and the list agree: a key is in the map iff  *)
(* exactly one node reachable from head has it, the map entry is that      *)
(* node, length is the number of keys and of nodes, head.prev and          *)
(* tail.next are null, and the walk from tail along prev is the walk from  *)
(* head along next reversed.                                               *)

Consistent(nd, l) ==
    LET f == Forward(nd, l) IN
    /\ \A k \in Keys :
          /\ (l.cache[k] # 0) <=> (\E i \in 1..Len(f) : nd[f[i]].key = k)
          /\ Cardinality({i \in 1..Len(f) : nd[f[i]].key = k}) <= 1
          /\ l.cache[k] # 0 => InSeq(f, l.cache[k]) /\ nd[l.cache[k]].key = k
    /\ l.length = Cardinality(MapKeys(l))
    /\ l.length = Len(f)
    /\ (l.head = 0) <=> (l.tail = 0)
    /\ l.head # 0 => nd[l.head].prev = 0
    /\ l.tail # 0 => nd[l.tail].next = 0
    /\ Backward(nd, l) = Reverse(f)

ListConsistency == \A c \in Caches : Consistent(nodes, lru[c])

\* a node has been unlinked from a list of Limit nodes: by a read hit that
\* put it back, or by a timer or remove that left the others
Unlinked ==
    \/ last.op = "read" /\ last.had # Undefined /\ lru[last.c].length = Limit
    \/ /\ last.op \in {"expire", "remove"}
       /\ last.had # Undefined
       /\ lru[last.c].length = Limit - 1

---------------------------------------------------------------------------
(* C3: a write evicts iff the key is new to the cache and the cache holds  *)
(* limit entries, and then it evicts the tail alone; the written key is at *)
(* the head and the other keys keep their order.  After Limit + 1 distinct *)
(* keys written with no read, the first is absent and the others present.  *)

Without(q, key) == SelectSeq(q, LAMBDA x : x # key)

\* the list of keys after a write of key, by the rule of the claim
AfterWrite(q, key, limit) ==
    IF InSeq(q, key) THEN <<key>> \o Without(q, key)
    ELSE IF Len(q) = limit THEN <<key>> \o SubSeq(q, 1, limit - 1)
    ELSE <<key>> \o q

\* the caches whose write or updateWrite the operation called
Written(log) ==
    {c \in Caches : \E i \in 1..Len(log) : log[i] \in {<<c, "write">>, <<c, "updateWrite">>}}

EvictionRule ==
    /\ [][last'.op = "write" =>
            \A c \in Caches :
                KeysOf(c)' = IF c \in Written(last'.log)
                             THEN AfterWrite(KeysOf(c), last'.key, lru[c].limit)
                             ELSE KeysOf(c)]_vars
    /\ [](last.fill = Limit + 1 =>
            MapKeys(lru[last.at]) = {KeyNames[i] : i \in 2..(Limit + 1)})

\* the write of the key after the last one a cache has room for has
\* evicted the first key
FirstKeyEvicted ==
    /\ last.fill = Limit + 1
    /\ KeyNames[1] \notin MapKeys(lru[last.at])
    /\ lru[last.at].length = Limit

---------------------------------------------------------------------------
(* C4: a read hit puts the key at the head of the list of the cache read,  *)
(* and changes neither the set of keys, nor a value, nor the order of the  *)
(* other keys; so write(key1), write(key2), read(key1), write(key3) on a   *)
(* cache of two entries leaves key1 and key3.                              *)

ReadMovesToHead ==
    /\ [][last'.op = "read" /\ last'.had # Undefined =>
            /\ ListKeys(nodes', lru'[last'.c]) =
                 <<last'.key>> \o Without(ListKeys(nodes, lru[last'.c]), last'.key)
            /\ \A k \in Keys :
                 ValueOf(nodes', lru'[last'.c], k) = ValueOf(nodes, lru[last'.c], k)]_vars
    /\ [](last.demo = Len(DemoScript) => KeysOf(last.at) = <<"key3", "key1">>)

\* the calls of demo() have been made, the read of key1 being a hit on the
\* tail
DemoDone ==
    /\ last.demo = Len(DemoScript)
    /\ "key2" \notin MapKeys(lru[last.at])

---------------------------------------------------------------------------
(* C5: read(key) returns the stored value when the cache holds the key and *)
(* a not-found result, without an error, when it does not.                 *)

ReadResult ==
    last.op = "read" => last.ret = last.had /\ last.err = "none"

---------------------------------------------------------------------------
(* C6: a read at a region that does not hold the key changes nothing: not  *)
(* the region, not the hub, not another region, not a timer.               *)

ReadMissNoEffect ==
    [][last'.op = "read" /\ last'.had = Undefined =>
          UNCHANGED <<nodes, timers, lru, lrus>>]_vars

---------------------------------------------------------------------------
(* C7: a key written to a cache with time limit T and not written again    *)
(* (nor removed) is in the cache at every time before T has elapsed and    *)
(* in it at no time after, however many reads name it in between.          *)

InWindow(w) ==
    /\ w.age < w.ttl => lru[w.c].cache[w.key] # 0
    /\ w.age > w.ttl => lru[w.c].cache[w.key] = 0

---------------------------------------------------------------------------
(* C8: in every cache the pending timers and the keys of the map           *)
(* correspond one to one: each key's node holds a pending timer of that    *)
(* cache and key, each pending timer is held by the node of its key, and   *)
(* a timer that fires removes that one entry and nothing else.             *)

TimersOf(c) == {t \in DOMAIN timers : timers[t] # NoTimer /\ timers[t].owner = c}

TimersMatchKeys ==
    /\ \A c \in Caches :
          /\ \A k \in MapKeys(lru[c]) :
                /\ nodes[lru[c].cache[k]].timeout \in TimersOf(c)
                /\ timers[nodes[lru[c].cache[k]].timeout].key = k
          /\ \A t \in TimersOf(c) :
                /\ lru[c].cache[timers[t].key] # 0
                /\ nodes[lru[c].cache[timers[t].key]].timeout = t
          /\ Cardinality(TimersOf(c)) = lru[c].length
    /\ [][last'.op = "expire" =>
            /\ last'.had # Undefined
            /\ \A c \in Caches :
                 /\ MapKeys(lru'[c]) = MapKeys(lru[c]) \ (IF c = last'.c THEN {last'.key} ELSE {})
                 /\ lru'[c].length = lru[c].length - (IF c = last'.c THEN 1 ELSE 0)]_vars

\* a timer has fired in one cache while another cache still holds the key,
\* its own timer pending
FiredAlone ==
    /\ last.op = "expire"
    /\ last.had # Undefined
    /\ \E c \in Caches \ {last.c} : \E t \in TimersOf(c) : timers[t].key = last.key

---------------------------------------------------------------------------
(* C9: after write(k, v) at region A, every cache registered in the hub    *)
(* under an id other than A's holds k with value v at the head of its      *)
(* list, the hub holds k with value v, and A holds one entry for k, its    *)
(* length grown by one at most; where every region is registered under its *)
(* own id, A receives no update of its own write.                          *)

Count(q, x) == Cardinality({i \in 1..Len(q) : q[i] = x})

\* each registry entry holds the region whose lruKey is the entry's id
Proper == \A i \in 1..Len(lrus) : lrus[i].id = lruKey(lrus[i].lru)

WriteFansOut ==
    /\ [](last.op = "write" =>
            /\ last.err = "none"
            /\ \A i \in 1..Len(lrus) :
                 lrus[i].id # lruKey(last.c) =>
                    /\ ValueOf(nodes, lru[lrus[i].lru], last.key) = last.val
                    /\ KeysOf(lrus[i].lru)[1] = last.key
            /\ ValueOf(nodes, lru["global"], last.key) = last.val
            /\ ValueOf(nodes, lru[last.c], last.key) = last.val
            /\ Count(KeysOf(last.c), last.key) = 1
            /\ Proper => Count(last.log, <<last.c, "updateWrite">>) = 0)
    /\ [][last'.op = "write" => lru'[last'.c].length <= lru[last'.c].length + 1]_vars

\* a write at one region has put a value the other region did not have
\* into the other region, registered under its own id
WrittenThrough ==
    /\ last.op = "write"
    /\ Proper
    /\ \E i \in 1..Len(lrus) :
          /\ lrus[i].id # lruKey(last.c)
          /\ ValueOf(nodes, lru[lrus[i].lru], last.key) = last.val
          /\ Count(last.log, <<lrus[i].lru, "updateWrite">>) = 1

---------------------------------------------------------------------------
(* C10: for a write or read at region A, every region registered under its *)
(* own id, the hub calls updateWrite and updateRead on no cache registered *)
(* under A's id, at most once on each other registered cache, and an       *)
(* update calls nothing of the hub: the hub is called once.                *)

Updates(log, c) == Count(log, <<c, "updateWrite">>) + Count(log, <<c, "updateRead">>)

NoRoutingBack ==
    last.op \in {"write", "read"} /\ Proper =>
        /\ \A i \in 1..Len(lrus) :
             Updates(last.log, lrus[i].lru) <= (IF lrus[i].id = lruKey(last.c) THEN 0 ELSE 1)
        /\ Cardinality({i \in 1..Len(last.log) : last.log[i][1] = "global"}) <= 1

---------------------------------------------------------------------------
(* C11: a region constructed against a hub that holds entries is           *)
(* constructed without an error and then holds the hub's keys, in the      *)
(* hub's order, with the hub's values.                                     *)

BootstrapContents ==
    last.op = "new" /\ last.c \in Regions /\ lru["global"].length >= 1 =>
        /\ last.err = "none"
        /\ KeysOf(last.c) = KeysOf("global")
        /\ \A k \in Keys : ValueOf(nodes, lru[last.c], k) = ValueOf(nodes, lru["global"], k)

---------------------------------------------------------------------------
(* C12: a region and the hub share no node and no timer, every region is   *)
(* consistent (map, list and length agree), and a remove at a region       *)
(* changes neither the hub's map, list and length nor its pending timers.  *)

\* the handles the nodes of cache c hold: of its map and along its list
HandlesOf(c) ==
    {nodes[n].timeout : n \in (Range(lru[c].cache) \cup Range(Forward(nodes, lru[c]))) \ {0}} \ {0}

NodesOf(c) == (Range(lru[c].cache) \cup Range(Forward(nodes, lru[c]))) \ {0}

\* what the hub holds: keys in order, values, length, keys with a pending timer
HubView ==
    <<KeysOf("global"), [k \in Keys |-> ValueOf(nodes, lru["global"], k)],
      lru["global"].length, {timers[t].key : t \in TimersOf("global")}>>

BootstrapIndependence ==
    /\ [](\A r \in Regions \cap built :
            /\ NodesOf(r) \cap NodesOf("global") = {}
            /\ HandlesOf(r) \cap HandlesOf("global") = {}
            /\ Consistent(nodes, lru[r]))
    /\ [][last'.op = "remove" => HubView' = HubView]_vars

---------------------------------------------------------------------------
(* C13: a write or read at a region that itself holds entries (limit > 0)  *)
(* returns without an error whatever a registered region does with the     *)
(* update, a write is then in the region's own cache, and every region     *)
(* registered under another id has received the update.                    *)

FanOutIsolation ==
    last.op \in {"write", "read"} /\ lru[last.c].limit > 0 =>
        /\ last.err = "none"
        /\ last.op = "write" =>
              /\ ValueOf(nodes, lru[last.c], last.key) = last.val
              /\ \A i \in 1..Len(lrus) :
                    lrus[i].id # lruKey(last.c) =>
                        Count(last.log, <<lrus[i].lru, "updateWrite">>) >= 1

---------------------------------------------------------------------------
(* C14: every cache that exists has a positive limit and a positive        *)
(* default timeLimit, a constructor given another one ending with an       *)
(* error, and no write fails.                                              *)

ConstructionValidation ==
    /\ \A c \in built : lru[c].limit > 0 /\ lru[c].timeLimit > 0
    /\ last.op = "new" /\ last.c \in Regions /\ (last.val <= 0 \/ last.timeLimit <= 0) =>
          last.err # "none"
    /\ last.op = "write" => last.err = "none"

---------------------------------------------------------------------------
(* C15: addLRU of an id that is registered ends with a conflict error and  *)
(* leaves the registry as it was; removeLRU of an id that is not           *)
(* registered leaves the registry as it was and ends without an error.     *)

RegistryErrors ==
    [][/\ last'.op = "addLRU" /\ Registered(lrus, last'.key) # 0 =>
             last'.err = "conflict" /\ lrus' = lrus
       /\ last'.op = "removeLRU" /\ Registered(lrus, last'.key) = 0 =>
             last'.err = "none" /\ lrus' = lrus]_vars

---------------------------------------------------------------------------
(* C16: a read hit leaves the timer of the key as it was, its delay and    *)
(* the time left on it, in the region read, in the hub and in every other  *)
(* region.                                                                 *)

\* the timer of key in a cache: whose, for which key, its delay, what is left
TimerOfKey(nd, tm, l, key) ==
    IF l.cache[key] = 0 THEN NoTimer ELSE tm[nd[l.cache[key]].timeout]

ReadKeepsTTL ==
    [][last'.op = "read" /\ last'.had # Undefined =>
          \A c \in Caches :
              TimerOfKey(nodes', timers', lru'[c], last'.key) =
                  TimerOfKey(nodes, timers, lru[c], last'.key)]_vars

---------------------------------------------------------------------------
(* C17: a timer that fires removes its key from its own cache and calls    *)
(* nothing of the hub or of a region; every other cache keeps its keys in  *)
(* their order, its values, its length and its pending timers.             *)

\* what cache c holds: keys in order, values, length, and for each pending
\* timer its key, its delay and what is left of it
CacheView(c) ==
    <<KeysOf(c), [k \in Keys |-> ValueOf(nodes, lru[c], k)], lru[c].length,
      {<<timers[t].key, timers[t].delay, timers[t].left>> : t \in TimersOf(c)}>>

ExpiryIsLocal ==
    [][last'.op = "expire" =>
          /\ last'.log = <<>>
          /\ \A c \in Caches :
               IF c = last'.c
               THEN MapKeys(lru[c])' = MapKeys(lru[c]) \ {last'.key}
               ELSE CacheView(c)' = CacheView(c)]_vars

\* a timer has fired in one cache of Limit entries, and the two other
\* caches still hold the key among Limit entries
ExpiredInOne ==
    /\ last.op = "expire"
    /\ lru[last.c].length = Limit - 1
    /\ \A c \in Caches \ {last.c} :
          lru[c].cache[last.key] # 0 /\ lru[c].length = Limit

---------------------------------------------------------------------------
(* C18: timers firing in the end, and the writes and reads of a behaviour  *)
(* being finitely many, every cache is empty in the end: length 0, head    *)
(* and tail null, no key in the map, no timer pending.                     *)

AllEmpty ==
    /\ \A c \in built :
          /\ lru[c].length = 0
          /\ lru[c].head = 0 /\ lru[c].tail = 0
          /\ MapKeys(lru[c]) = {}
    /\ \A t \in DOMAIN timers : timers[t] = NoTimer

EventualExpiry == <>[]AllEmpty

---------------------------------------------------------------------------
(* C19: the caches constructed empty with one limit, the regions           *)
(* registered under their own ids, no timer firing: after every write and  *)
(* read at a region the hub and every region hold the same keys in the     *)
(* same order with the same values.                                        *)

ReplicaAgreement ==
    \A i \in 1..Len(lrus) :
        /\ KeysOf(lrus[i].lru) = KeysOf("global")
        /\ \A k \in Keys :
              ValueOf(nodes, lru[lrus[i].lru], k) = ValueOf(nodes, lru["global"], k)

\* a read hit has moved a key to the head of the hub and of both regions,
\* each of them full
ReadEverywhere ==
    /\ last.op = "read" /\ last.had # Undefined
    /\ Proper /\ Len(lrus) = Cardinality(Regions)
    /\ \A c \in Caches : lru[c].length = Limit /\ KeysOf(c)[1] = last.key

---------------------------------------------------------------------------
(* C20: write(key, val, 0) does what write(key, val) does: in every cache  *)
(* the write reaches, the region, the hub and the regions the hub updates, *)
(* the timer of the key has the delay of that cache's own default          *)
(* timeLimit.                                                              *)

ZeroMeansDefault ==
    /\ \A r \in Regions \cap built, key \in Keys, val \in Vals :
          RegionWrite(Here, r, key, val, 0) = RegionWrite(Here, r, key, val, Undefined)
    /\ last.op = "write" /\ last.timeLimit = 0 /\ last.err = "none" =>
          \A c \in Written(last.log) :
              TimerOfKey(nodes, timers, lru[c], last.key).delay = lru[c].timeLimit

\* a write with timeLimit 0 has armed timers of different delays in two
\* caches, their defaults
ZeroWritten ==
    /\ last.op = "write" /\ last.timeLimit = 0 /\ last.err = "none"
    /\ \E c, d \in Written(last.log) :
          /\ lru[c].timeLimit > 0 /\ lru[d].timeLimit > lru[c].timeLimit
          /\ TimerOfKey(nodes, timers, lru[c], last.key).delay = lru[c].timeLimit
          /\ TimerOfKey(nodes, timers, lru[d], last.key).delay = lru[d].timeLimit

=============================================================================
